---- MODULE Spec2Model ----
(***************************************************************************)
(* A model of the cluster activation middleware of cluster/config.go       *)
(* (withClusterReceiveMiddleware, handleStarted, handleStopped,            *)
(* WithClusterIdentity), of the live-instance counter of ActivatedKind,    *)
(* and of the blocking / reenterable call contract of the grain service    *)
(* declared in the reentrancy example.                                     *)
(***************************************************************************)
EXTENDS Integers, Sequences, FiniteSets, TLC

\* ------------------------------------------------------------------ bounds
\* Number of activations (actor processes) that may be spawned.
NumActs == 2
\* Envelopes the actor runtime hands to the activations, all together.
MaxDeliveries == 3

\* Inc and Dev calls made on one ActivatedKind.
MaxCalls == 4

Acts == 1 .. NumActs

\* ------------------------------------------------------------ value spaces
\* A nil *actor.PID / a nil *ClusterIdentity.
NoPid == 0
NoIdentity == [Identity |-> "<nil>", Kind |-> "<nil>"]

\* The identities activations are bound to; the key space is (identity, kind).
ClusterIdentities ==
    { [Identity |-> "user-1", Kind |-> "Hello"],
      [Identity |-> "user-1", Kind |-> "World"] }

\* Actor systems of the process, each with its registered cluster.
Systems == {"sys1", "sys2"}

\* The lifecycle signals and the business messages of the actor runtime.
Started == [type |-> "Started"]
Stopped == [type |-> "Stopped"]
UserMessages == { [type |-> "User", body |-> "ping"] }

\* actor.MessageEnvelope{Header, Message, Sender}: header elided, sender kept.
Envelope(m, sender) == [Message |-> m, Sender |-> sender]

\* actor.WrapEnvelope(message): an envelope with no header and no sender.
WrapEnvelope(m) == Envelope(m, NoPid)

\* The pid of a client outside the modelled activations.
ClientPid == 9

VARIABLES
    actors,       \* the activations spawned so far
    ctxIdentity,  \* per activation: the *ClusterIdentity set in its context
    actorSystem,  \* per activation: c.ActorSystem()
    pc,           \* per activation: the steps left in the current turn
    delivered,    \* per activation: the envelopes handed to the middleware
    log,          \* per activation: the effects of the middleware, in order
    PidCache,     \* per system: cl.PidCache, (identity, kind) -> pid
    EventStream   \* per system: the events published on cl.ActorSystem.EventStream

VARIABLES
    count,        \* per ActivatedKind: the live-instance counter (int32)
    calls         \* per ActivatedKind: the Inc and Dev calls completed, in order

mwVars == <<actors, ctxIdentity, actorSystem, pc, delivered, log,
            PidCache, EventStream>>

VARIABLES
    cycleMethod,  \* the method of the call cycle, once a client has started it
    mailbox,      \* per grain: its message queue
    busy,         \* per grain: the blocking call that occupies its turn, if any
    status,       \* per call: unissued, pending, ok, error or timeout
    deadline,     \* per call: the time at which its request times out
    returned,     \* per call: whether its result has come back to the caller's code
    handled,      \* per grain: the messages whose handlers have started
    pings,        \* the number of business messages clients have sent
    now           \* the clock

VARIABLES
    config,       \* the *Config that Configure builds
    options,      \* the options Configure has applied, in order
    cfgpc         \* where Configure stands: idle, options or returned

VARIABLES
    protoService, \* the service protoc hands to the generator
    serviceDesc,  \* the serviceDesc that generateService has built
    emitted,      \* whether generateService has executed the template
    genpc         \* where the generator stands: idle, read or done

akVars == <<count, calls>>

cfgVars == <<config, options, cfgpc>>

genVars == <<protoService, serviceDesc, emitted, genpc>>

callVars == <<cycleMethod, mailbox, busy, status, deadline, returned, handled,
              pings, now>>

vars == <<mwVars, akVars, callVars, cfgVars, genVars>>

\* -------------------------------------------------- external collaborators
\* GetCluster(actorSystem): the cluster registered for the actor system.
GetCluster(sys) == [ActorSystem |-> sys]

\* GetClusterIdentity(c): the identity stored in the context, or nil.
GetClusterIdentity(a) == ctxIdentity[a]

\* PidCache.Set(identity, kind, pid).
CacheSet(cache, identity, kind, pid) ==
    [cache EXCEPT ![[Identity |-> identity, Kind |-> kind]] = pid]

\* PidCache.RemoveByValue(identity, kind, pid): remove the entry of the key
\* only when its current value is pid.
RemoveByValue(cache, identity, kind, pid) ==
    LET key == [Identity |-> identity, Kind |-> kind]
    IN  IF key \in DOMAIN cache /\ cache[key] = pid
        THEN [cache EXCEPT ![key] = NoPid]
        ELSE cache

\* Whether the cache of a's cluster maps a's bound identity to a itself.
Cached(a) ==
    /\ ctxIdentity[a] \in DOMAIN PidCache[actorSystem[a]]
    /\ PidCache[actorSystem[a]][ctxIdentity[a]] = a

\* -------------------------------------------------------------- middleware
\* One effect of the middleware, as the log keeps it: the operation, its
\* argument and, for the effects of stop handling, a probe of the cache taken
\* when it happened.
Effect(a, op, arg, probe) == [op |-> op, arg |-> arg, cached |-> probe /\ Cached(a)]

\* A handleStarted that delivers ClusterInit before it forwards the signal.
handleStartedInitFirst == <<"init", "next">>

\* handleStarted: forward the signal, then deliver ClusterInit.
handleStarted == <<"next", "init">>

\* A handleStopped that removes the cache entry before it publishes.
handleStoppedRemoveFirst(identity) ==
    IF identity # NoIdentity THEN <<"remove", "publish", "next">> ELSE <<"next">>

\* A handleStopped without the test for a nil identity.
handleStoppedNoNilCheck(identity) == <<"publish", "remove", "next">>

\* A handleStopped that publishes the termination twice.
handleStoppedPublishTwice(identity) ==
    IF identity # NoIdentity THEN <<"publish", "publish", "remove", "next">>
    ELSE <<"next">>

\* A handleStopped that leaves the cache entry in place.
handleStoppedNoRemove(identity) ==
    IF identity # NoIdentity THEN <<"publish", "next">> ELSE <<"next">>

\* handleStopped: publish and remove when an identity is bound, then forward.
handleStopped(identity) ==
    IF identity # NoIdentity THEN <<"publish", "remove", "next">> ELSE <<"next">>

\* A type switch whose first case takes every message that is not Stopped.
withClusterReceiveMiddlewareNoDefault(a, env) ==
    CASE env.Message = Stopped -> handleStopped(GetClusterIdentity(a))
      [] OTHER -> handleStarted

\* A type switch that starts a grain only when an identity is bound.
withClusterReceiveMiddlewareInitNeedsIdentity(a, env) ==
    CASE env.Message = Started ->
             IF GetClusterIdentity(a) # NoIdentity THEN handleStarted ELSE <<"next">>
      [] env.Message = Stopped -> handleStopped(GetClusterIdentity(a))
      [] OTHER -> <<"next">>

\* The type switch of the middleware.
withClusterReceiveMiddleware(a, env) ==
    CASE env.Message = Started -> handleStarted
      [] env.Message = Stopped -> handleStopped(GetClusterIdentity(a))
      [] OTHER -> <<"next">>

\* A ClusterInit that carries the cluster of one fixed actor system, whatever
\* system hosts the activation.
grainInitSingleCluster(a) ==
    [type |-> "ClusterInit",
     Identity |-> GetClusterIdentity(a),
     Cluster |-> GetCluster("sys1")]

\* The ClusterInit signal built by handleStarted.
grainInit(a) ==
    [type |-> "ClusterInit",
     Identity |-> GetClusterIdentity(a),
     Cluster |-> GetCluster(actorSystem[a])]

\* The ActivationTerminating event built by handleStopped.
ActivationTerminating(a, identity) ==
    [type |-> "ActivationTerminating", Pid |-> a, ClusterIdentity |-> identity]

\* A cache update that removes the key whatever pid it maps to.
removeFromCacheByKey(cache, identity, a) ==
    IF identity \in DOMAIN cache THEN [cache EXCEPT ![identity] = NoPid] ELSE cache

\* The cache update of handleStopped: a removal qualified by the pid.
removeFromCache(cache, identity, a) ==
    RemoveByValue(cache, identity.Identity, identity.Kind, a)

\* The envelope of the current turn of activation a.
envelope(a) == delivered[a][Len(delivered[a])]

\* Whether the runtime has handed Stopped to the activation.
StopDelivered(a) ==
    \E i \in 1 .. Len(delivered[a]) : delivered[a][i].Message = Stopped

RECURSIVE SumLen(_, _)
SumLen(f, S) ==
    IF S = {} THEN 0
    ELSE LET x == CHOOSE y \in S : TRUE IN Len(f[x]) + SumLen(f, S \ {x})

\* The envelopes the runtime and the clients produce.
Envelopes ==
    {WrapEnvelope(Started), WrapEnvelope(Stopped)} \cup
    {Envelope(m, ClientPid) : m \in UserMessages}

\* The envelopes the actor runtime may hand to activation a next: Started
\* first (and again after a restart), business messages while it runs, and
\* Stopped last.
Deliverable(a) ==
    IF StopDelivered(a) \/ SumLen(delivered, Acts) >= MaxDeliveries THEN {}
    ELSE IF delivered[a] = <<>> THEN {WrapEnvelope(Started)}
    ELSE Envelopes

InitMiddleware ==
    /\ actors = {}
    /\ ctxIdentity = [a \in Acts |-> NoIdentity]
    /\ actorSystem = [a \in Acts |-> "sys1"]
    /\ pc = [a \in Acts |-> <<>>]
    /\ delivered = [a \in Acts |-> <<>>]
    /\ log = [a \in Acts |-> <<>>]
    /\ PidCache = [s \in Systems |-> [k \in ClusterIdentities |-> NoPid]]
    /\ EventStream = [s \in Systems |-> <<>>]

\* An activation is spawned from props; WithClusterIdentity binds ci in its
\* context on init, plain props leave the context without an identity.
Spawn(a, ci, sys) ==
    /\ a \notin actors
    /\ a = Cardinality(actors) + 1
    /\ actors' = actors \cup {a}
    /\ ctxIdentity' = [ctxIdentity EXCEPT ![a] = ci]
    /\ actorSystem' = [actorSystem EXCEPT ![a] = sys]
    /\ UNCHANGED <<pc, delivered, log, PidCache, EventStream>>
    /\ UNCHANGED <<akVars, callVars, cfgVars, genVars>>

\* Upstream of the middleware: the pid of a live activation is cached under
\* its identity.
CacheInsert(a) ==
    /\ a \in actors
    /\ ctxIdentity[a] # NoIdentity
    /\ ~StopDelivered(a)
    /\ PidCache' = [PidCache EXCEPT ![actorSystem[a]] =
                       CacheSet(@, ctxIdentity[a].Identity, ctxIdentity[a].Kind, a)]
    /\ UNCHANGED <<actors, ctxIdentity, actorSystem, pc, delivered,
                   log, EventStream>>
    /\ UNCHANGED <<akVars, callVars, cfgVars, genVars>>

\* next(c, envelope): env goes to the wrapped pipeline.
Forward(a, env) ==
    /\ log' = [log EXCEPT ![a] = Append(@, Effect(a, "next", env, env.Message = Stopped))]
    /\ UNCHANGED <<PidCache, EventStream>>

\* next(c, actor.WrapEnvelope(grainInit)).
DeliverInit(a) ==
    /\ log' = [log EXCEPT ![a] =
                  Append(@, Effect(a, "next", WrapEnvelope(grainInit(a)), FALSE))]
    /\ UNCHANGED <<PidCache, EventStream>>

\* cl.ActorSystem.EventStream.Publish(&ActivationTerminating{...}).
Publish(a) ==
    LET cl == GetCluster(actorSystem[a])
        ev == ActivationTerminating(a, GetClusterIdentity(a))
    IN  /\ EventStream' = [EventStream EXCEPT ![cl.ActorSystem] = Append(@, ev)]
        /\ log' = [log EXCEPT ![a] = Append(@, Effect(a, "publish", ev, TRUE))]
        /\ UNCHANGED PidCache

\* cl.PidCache.RemoveByValue(identity.Identity, identity.Kind, c.Self()).
Remove(a) ==
    LET cl == GetCluster(actorSystem[a])
    IN  /\ PidCache' = [PidCache EXCEPT ![cl.ActorSystem] =
                           removeFromCache(@, GetClusterIdentity(a), a)]
        /\ log' = [log EXCEPT ![a] =
                      Append(@, Effect(a, "remove", GetClusterIdentity(a), TRUE))]
        /\ UNCHANGED EventStream

\* Activation a executes the first of the steps left in its turn.
Exec(a, steps, env) ==
    /\ pc' = [pc EXCEPT ![a] = Tail(steps)]
    /\ CASE Head(steps) = "next" -> Forward(a, env)
         [] Head(steps) = "init" -> DeliverInit(a)
         [] Head(steps) = "publish" -> Publish(a)
         [] Head(steps) = "remove" -> Remove(a)

\* A handleStopped whose call of clusterKind.Dec() is not commented out.
clusterKindDec(cnt, a, env) ==
    IF env.Message = Stopped /\ ctxIdentity[a] # NoIdentity
    THEN [cnt EXCEPT ![ctxIdentity[a].Kind] = @ - 1]
    ELSE cnt

\* The live-instance counters after the middleware has received env: the one
\* call that would touch them, clusterKind.Dec() in handleStopped, is
\* commented out.
clusterKindCount(cnt, a, env) == cnt

\* The runtime starts a turn of activation a: the middleware receives env,
\* dispatches on its message type and runs up to its first effect.
Receive(a, env) ==
    /\ a \in actors
    /\ pc[a] = <<>>
    /\ env \in Deliverable(a)
    /\ delivered' = [delivered EXCEPT ![a] = Append(@, env)]
    /\ Exec(a, withClusterReceiveMiddleware(a, env), env)
    /\ count' = clusterKindCount(count, a, env)
    /\ UNCHANGED <<actors, ctxIdentity, actorSystem>>
    /\ UNCHANGED <<calls, callVars, cfgVars, genVars>>

\* The turn of activation a goes on to its next effect.
Continue(a) ==
    /\ pc[a] # <<>>
    /\ Exec(a, pc[a], envelope(a))
    /\ UNCHANGED <<actors, ctxIdentity, actorSystem, delivered>>
    /\ UNCHANGED <<akVars, callVars, cfgVars, genVars>>

Next ==
    \/ \E a \in Acts, ci \in ClusterIdentities \cup {NoIdentity}, sys \in Systems :
          Spawn(a, ci, sys)
    \/ \E a \in Acts : CacheInsert(a)
    \/ \E a \in Acts, env \in Envelopes : Receive(a, env)
    \/ \E a \in Acts : Continue(a)

\* ----------------------------------------------------------- ActivatedKind
\* The kinds built into ActivatedKinds.
KindNames == {"Hello", "World"}

\* The range of the int32 counter.
MaxInt32 == 2147483647
MinInt32 == -MaxInt32 - 1

\* atomic.AddInt32 on a value, for a delta of +1 or -1: two's complement
\* addition.
AddInt32(v, delta) ==
    IF delta = 1 /\ v = MaxInt32 THEN MinInt32
    ELSE IF delta = -1 /\ v = MinInt32 THEN MaxInt32
    ELSE v + delta

\* Kind.Build: a new ActivatedKind, its counter zero.
InitActivatedKinds ==
    /\ count = [k \in KindNames |-> 0]
    /\ calls = [k \in KindNames |-> <<>>]

\* An increment that is not atomic: racing with another call it may be lost.
IncRacy(k) ==
    /\ Len(calls[k]) < MaxCalls
    /\ \E v \in {count[k], AddInt32(count[k], 1)} :
          count' = [count EXCEPT ![k] = v]
    /\ calls' = [calls EXCEPT ![k] = Append(@, "Inc")]
    /\ UNCHANGED <<mwVars, callVars, cfgVars, genVars>>

\* ActivatedKind.Inc.
Inc(k) ==
    /\ Len(calls[k]) < MaxCalls
    /\ count' = [count EXCEPT ![k] = AddInt32(@, 1)]
    /\ calls' = [calls EXCEPT ![k] = Append(@, "Inc")]
    /\ UNCHANGED <<mwVars, callVars, cfgVars, genVars>>

\* A decrement that adds one, as Inc does.
DevAddsOne(k) ==
    /\ Len(calls[k]) < MaxCalls
    /\ count' = [count EXCEPT ![k] = AddInt32(@, 1)]
    /\ calls' = [calls EXCEPT ![k] = Append(@, "Dev")]
    /\ UNCHANGED <<mwVars, callVars, cfgVars, genVars>>

\* ActivatedKind.Dev.
Dev(k) ==
    /\ Len(calls[k]) < MaxCalls
    /\ count' = [count EXCEPT ![k] = AddInt32(@, -1)]
    /\ calls' = [calls EXCEPT ![k] = Append(@, "Dev")]
    /\ UNCHANGED <<mwVars, callVars, cfgVars, genVars>>

\* -------------------------------------------------------- grain generator
\* A nil *options.MethodOptions: the method declares no option.
NoMethodOptions == [set |-> FALSE, Reenterable |-> FALSE]

\* service Hello of the reentrancy example, as protogen hands it over.
HelloService ==
    [GoName |-> "Hello",
     Methods |-> <<
        [GoName |-> "InvokeService", StreamingClient |-> FALSE,
         StreamingServer |-> FALSE,
         Options |-> [set |-> TRUE, Reenterable |-> TRUE]],
        [GoName |-> "DoWork", StreamingClient |-> FALSE,
         StreamingServer |-> FALSE,
         Options |-> NoMethodOptions] >>]

\* A getter that takes a method with no option for a reenterable one.
GetReenterableDefaultTrue(methodOptions) ==
    IF methodOptions.set THEN methodOptions.Reenterable ELSE TRUE

\* MethodOptions.GetReenterable: false on a nil receiver.
GetReenterable(methodOptions) ==
    IF methodOptions.set THEN methodOptions.Reenterable ELSE FALSE

\* proto.GetExtension(...).(*options.MethodOptions): the extension's value
\* is of that type, set or nil, so the assertion holds.
GetExtensionOk(method) == TRUE

\* A descriptor built without its Reenterable field, which stays false.
methodDescNotReenterable(method, i) ==
    [Name |-> method.GoName, Index |-> i, Reenterable |-> FALSE]

\* A descriptor that marks every method reenterable.
methodDescAlwaysReenterable(method, i) ==
    [Name |-> method.GoName, Index |-> i, Reenterable |-> TRUE]

\* The methodDesc built for the method at index i; the input and output
\* type names are elided.
methodDesc(method, i) ==
    [Name |-> method.GoName, Index |-> i,
     Reenterable |-> GetReenterable(method.Options)]

\* A loop that skips only the client-streaming methods.
RECURSIVE generateMethodsKeepServerStreaming(_, _)
generateMethodsKeepServerStreaming(methods, i) ==
    IF i >= Len(methods) THEN <<>>
    ELSE LET method == methods[i + 1]
         IN  IF method.StreamingClient
             THEN generateMethodsKeepServerStreaming(methods, i + 1)
             ELSE <<methodDesc(method, i)>> \o
                  generateMethodsKeepServerStreaming(methods, i + 1)

\* A loop that numbers the descriptors by their position in sd.Methods.
RECURSIVE generateMethodsDenseIndex(_, _)
generateMethodsDenseIndex(methods, i) ==
    IF i >= Len(methods) THEN <<>>
    ELSE LET method == methods[i + 1]
             n == Cardinality({j \in 1 .. i :
                      ~(methods[j].StreamingClient \/ methods[j].StreamingServer)})
         IN  IF method.StreamingClient \/ method.StreamingServer
             THEN generateMethodsDenseIndex(methods, i + 1)
             ELSE <<methodDesc(method, n)>> \o
                  generateMethodsDenseIndex(methods, i + 1)

\* The loop of generateService over service.Methods from Go index i on: the
\* descriptors appended to sd.Methods.
RECURSIVE generateMethods(_, _)
generateMethods(methods, i) ==
    IF i >= Len(methods) THEN <<>>
    ELSE LET method == methods[i + 1]
         IN  IF method.StreamingClient \/ method.StreamingServer
             THEN generateMethods(methods, i + 1)
             ELSE IF ~GetExtensionOk(method)
             THEN generateMethods(methods, i + 1)
             ELSE <<methodDesc(method, i)>> \o generateMethods(methods, i + 1)

\* generateService: the serviceDesc handed to the template.
generateService(service) ==
    [Name |-> service.GoName, Methods |-> generateMethods(service.Methods, 0)]

\* A lookup that takes the flag of any method of the service.
ReenterableAnyMethod(name) ==
    LET sd == generateService(HelloService)
    IN  \E i \in 1 .. Len(sd.Methods) : sd.Methods[i].Reenterable

\* Whether the generated grain code dispatches calls of a method as
\* reenterable.
Reenterable(name) ==
    LET sd == generateService(HelloService)
    IN  \E i \in 1 .. Len(sd.Methods) :
            sd.Methods[i].Name = name /\ sd.Methods[i].Reenterable

\* Whether the service definition annotates a method as reenterable.
DeclaredReenterable(name) ==
    \E i \in 1 .. Len(HelloService.Methods) :
        /\ HelloService.Methods[i].GoName = name
        /\ HelloService.Methods[i].Options.set
        /\ HelloService.Methods[i].Options.Reenterable

MethodNames == {HelloService.Methods[i].GoName : i \in 1 .. Len(HelloService.Methods)}

\* ---------------------------------------------------------------- Configure
\* The options one call of Configure is given, and the kinds one call of
\* WithKinds is given, at most.
MaxOptions == 2

MaxKinds == 2

\* time.Duration, counted in milliseconds.
Millisecond == 1

Second == 1000 * Millisecond

\* No *Kind under a name of the Kinds map.
NoKind == [Kind |-> "<nil>", Props |-> "<nil>"]

\* NewKind(kind, props); the middleware it adds to the props is the subject
\* of the first part of this module.
NewKind(kind, props) == [Kind |-> kind, Props |-> props]

\* The kinds an application registers: two of them share a name.
KindValues ==
    {NewKind("Hello", "helloProps"), NewKind("Hello", "otherProps"),
     NewKind("World", "worldProps")}

\* The argument lists of WithKinds.
KindLists == UNION {[1 .. n -> KindValues] : n \in 0 .. MaxKinds}

\* The *Config before Configure is called.
NoConfig == [Name |-> "<nil>"]

\* A Config literal that counts the gossip interval in seconds.
newConfigGossipInSeconds(clusterName) ==
    [Name |-> clusterName,
     RequestTimeoutTime |-> "defaultActorRequestTimeout",
     RequestsLogThrottlePeriod |-> "defaultRequestsLogThrottlePeriod",
     Kinds |-> [name \in KindNames |-> NoKind],
     ClusterContextProducer |-> "newDefaultClusterContext",
     MaxNumberOfEventsInRequestLogThrottledPeriod |->
         "defaultMaxNumberOfEvetsInRequestLogThrottledPeriod",
     TimeoutTime |-> Second * 5,
     GossipInterval |-> Second * 300,
     GossipRequestTimeout |-> Millisecond * 500,
     GossipFanOut |-> 3,
     GossipMaxSend |-> 50]

\* The Config literal of Configure; the provider, the identity lookup, the
\* remote configuration and the member strategy builder are passed through
\* and elided, and the defaults declared outside this file keep their names.
newConfig(clusterName) ==
    [Name |-> clusterName,
     RequestTimeoutTime |-> "defaultActorRequestTimeout",
     RequestsLogThrottlePeriod |-> "defaultRequestsLogThrottlePeriod",
     Kinds |-> [name \in KindNames |-> NoKind],
     ClusterContextProducer |-> "newDefaultClusterContext",
     MaxNumberOfEventsInRequestLogThrottledPeriod |->
         "defaultMaxNumberOfEvetsInRequestLogThrottledPeriod",
     TimeoutTime |-> Second * 5,
     GossipInterval |-> Millisecond * 300,
     GossipRequestTimeout |-> Millisecond * 500,
     GossipFanOut |-> 3,
     GossipMaxSend |-> 50]

WithRequestTimeout(c, t) == [c EXCEPT !.RequestTimeoutTime = t]

WithRequestsLogThrottlePeriod(c, period) ==
    [c EXCEPT !.RequestsLogThrottlePeriod = period]

WithClusterContextProducer(c, producer) ==
    [c EXCEPT !.ClusterContextProducer = producer]

WithMaxNumberOfEventsInRequestLogThrottlePeriod(c, maxNumber) ==
    [c EXCEPT !.MaxNumberOfEventsInRequestLogThrottledPeriod = maxNumber]

\* A WithKinds that keeps the Kind a name already has.
RECURSIVE WithKindsFirstWins(_, _)
WithKindsFirstWins(c, kinds) ==
    IF kinds = <<>> THEN c
    ELSE LET kind == Head(kinds)
         IN  WithKindsFirstWins(
                 IF c.Kinds[kind.Kind] = NoKind
                 THEN [c EXCEPT !.Kinds[kind.Kind] = kind]
                 ELSE c,
                 Tail(kinds))

\* WithKinds: c.Kinds[kind.Kind] = kind for each kind, in order.
RECURSIVE WithKinds(_, _)
WithKinds(c, kinds) ==
    IF kinds = <<>> THEN c
    ELSE LET kind == Head(kinds)
         IN  WithKinds([c EXCEPT !.Kinds[kind.Kind] = kind], Tail(kinds))

\* option(config): the closure an option constructor returned, applied.
ApplyOption(option, c) ==
    CASE option.op = "WithKinds" -> WithKinds(c, option.arg)
      [] option.op = "WithRequestTimeout" -> WithRequestTimeout(c, option.arg)
      [] option.op = "WithRequestsLogThrottlePeriod" ->
             WithRequestsLogThrottlePeriod(c, option.arg)
      [] option.op = "WithClusterContextProducer" ->
             WithClusterContextProducer(c, option.arg)
      [] option.op = "WithMaxNumberOfEventsInRequestLogThrottlePeriod" ->
             WithMaxNumberOfEventsInRequestLogThrottlePeriod(c, option.arg)

InitConfig ==
    /\ config = NoConfig
    /\ options = <<>>
    /\ cfgpc = "idle"

\* Configure is called: it builds the Config literal.
Configure(clusterName) ==
    /\ cfgpc = "idle"
    /\ config' = newConfig(clusterName)
    /\ cfgpc' = "options"
    /\ UNCHANGED options
    /\ UNCHANGED <<mwVars, akVars, callVars, genVars>>

\* One turn of the loop over the options of Configure.
Option(option) ==
    /\ cfgpc = "options"
    /\ Len(options) < MaxOptions
    /\ config' = ApplyOption(option, config)
    /\ options' = Append(options, option)
    /\ UNCHANGED cfgpc
    /\ UNCHANGED <<mwVars, akVars, callVars, genVars>>

\* Configure returns the Config.
Return ==
    /\ cfgpc = "options"
    /\ cfgpc' = "returned"
    /\ UNCHANGED <<config, options>>
    /\ UNCHANGED <<mwVars, akVars, callVars, genVars>>

NextConfig ==
    \/ Configure("mycluster")
    \/ \E kinds \in KindLists : Option([op |-> "WithKinds", arg |-> kinds])
    \/ Option([op |-> "WithRequestTimeout", arg |-> "2s"])
    \/ Option([op |-> "WithRequestsLogThrottlePeriod", arg |-> "1s"])
    \/ Option([op |-> "WithClusterContextProducer", arg |-> "myProducer"])
    \/ Option([op |-> "WithMaxNumberOfEventsInRequestLogThrottlePeriod",
               arg |-> "10"])
    \/ Return

\* -------------------------------------------------------- generator runs
\* The methods of a service the generator is run on, at most.
MaxMethods == 2

\* The names of the methods of a service, by position.
MethodGoNames == <<"InvokeService", "DoWork", "Watch", "Upload">>

\* The values of the method_options extension: none, reenterable = true and
\* reenterable = false.
MethodOptionsValues ==
    {NoMethodOptions,
     [set |-> TRUE, Reenterable |-> TRUE],
     [set |-> TRUE, Reenterable |-> FALSE]}

\* The lists of methods of a service: unary and streaming declarations with
\* every value of the option, in every order.
MethodLists ==
    UNION {{[i \in 1 .. n |->
                [GoName |-> MethodGoNames[i],
                 StreamingClient |-> shape[i].StreamingClient,
                 StreamingServer |-> shape[i].StreamingServer,
                 Options |-> shape[i].Options]] :
            shape \in [1 .. n -> [StreamingClient : BOOLEAN,
                                  StreamingServer : BOOLEAN,
                                  Options : MethodOptionsValues]]} :
           n \in 0 .. MaxMethods}

Services == {[GoName |-> "Hello", Methods |-> methods] : methods \in MethodLists}

NoService == [GoName |-> "<nil>", Methods |-> <<>>]

InitGen ==
    /\ protoService = NoService
    /\ serviceDesc = [Name |-> "<nil>", Methods |-> <<>>]
    /\ emitted = FALSE
    /\ genpc = "idle"

\* protoc hands a service of the file to the plugin.
ReadService(service) ==
    /\ genpc = "idle"
    /\ protoService' = service
    /\ genpc' = "read"
    /\ UNCHANGED <<serviceDesc, emitted>>
    /\ UNCHANGED <<mwVars, akVars, callVars, cfgVars>>

\* generateService runs on the service: it builds the serviceDesc and
\* executes the template when the serviceDesc has a method.
GenerateService ==
    /\ genpc = "read"
    /\ serviceDesc' = generateService(protoService)
    /\ emitted' = (Len(generateService(protoService).Methods) # 0)
    /\ genpc' = "done"
    /\ UNCHANGED protoService
    /\ UNCHANGED <<mwVars, akVars, callVars, cfgVars>>

NextGen ==
    \/ \E service \in Services : ReadService(service)
    \/ GenerateService

\* ------------------------------------------------------------- grain calls
\* The grains of a call cycle: grain 1 calls grain 2, ..., the last grain
\* calls back grain 1.
NumGrains == 2
\* The request timeout, in ticks of the clock.
RequestTimeout == 2
\* Business messages that clients send to the grains beside the cycle.
MaxPings == 2

Grains == 1 .. NumGrains

\* Call c is the call of grain c to the next grain of the cycle.
Calls == 1 .. NumGrains
NoCall == 0
Caller(c) == c
Callee(c) == IF c = NumGrains THEN 1 ELSE c + 1

Msg(kind, c) == [kind |-> kind, call |-> c]

InitCalls ==
    /\ cycleMethod = "none"
    /\ mailbox = [g \in Grains |-> <<>>]
    /\ busy = [g \in Grains |-> NoCall]
    /\ status = [c \in Calls |-> "unissued"]
    /\ deadline = [c \in Calls |-> 0]
    /\ returned = [c \in Calls |-> FALSE]
    /\ handled = [g \in Grains |-> <<>>]
    /\ pings = 0
    /\ now = 0

\* Whether a response to call c reaches the caller: the request is pending
\* and its timeout has not elapsed.
Lands(c) == status[c] = "pending" /\ now < deadline[c]

\* The cluster's request primitive completes call c with a result, unless
\* the response is late; the response of a reenterable call is put on the
\* caller's own queue as a continuation.
StatusAfterRespond(st, c, result) ==
    IF c # NoCall /\ Lands(c) THEN [st EXCEPT ![c] = result] ELSE st

MailboxAfterRespond(mb, c) ==
    IF c # NoCall /\ Lands(c) /\ Reenterable(cycleMethod)
    THEN [mb EXCEPT ![Caller(c)] = Append(@, Msg("continuation", c))]
    ELSE mb

\* Grain g starts the handler of the first message of its queue.
Starts(g, kind) ==
    /\ busy[g] = NoCall
    /\ mailbox[g] # <<>>
    /\ Head(mailbox[g]).kind = kind
    /\ handled' = [handled EXCEPT ![g] = Append(@, Head(mailbox[g]))]

\* Grain g issues call c through the generated client: the request goes to
\* the callee's queue; a blocking call keeps the turn of g, a reenterable
\* call releases it.
IssueCall(g, c) ==
    /\ status' = [status EXCEPT ![c] = "pending"]
    /\ deadline' = [deadline EXCEPT ![c] = now + RequestTimeout]
    /\ mailbox' = [mailbox EXCEPT ![g] = Tail(@),
                                  ![Callee(c)] = Append(@, Msg("request", c))]
    /\ busy' = [busy EXCEPT ![g] = IF Reenterable(cycleMethod) THEN NoCall ELSE c]

\* A client starts the cycle: grain 1 is asked to call method m of grain 2.
StartCycle(m) ==
    /\ cycleMethod = "none"
    /\ cycleMethod' = m
    /\ mailbox' = [mailbox EXCEPT ![1] = Append(@, Msg("go", NoCall))]
    /\ UNCHANGED <<busy, status, deadline, returned, handled, pings, now>>
    /\ UNCHANGED <<mwVars, akVars, cfgVars, genVars>>

\* A client sends a business message to grain g.
SendPing(g) ==
    /\ pings < MaxPings
    /\ pings' = pings + 1
    /\ mailbox' = [mailbox EXCEPT ![g] = Append(@, Msg("ping", NoCall))]
    /\ UNCHANGED <<cycleMethod, busy, status, deadline, returned, handled, now>>
    /\ UNCHANGED <<mwVars, akVars, cfgVars, genVars>>

\* Grain g handles a business message.
HandlePing(g) ==
    /\ Starts(g, "ping")
    /\ mailbox' = [mailbox EXCEPT ![g] = Tail(@)]
    /\ UNCHANGED <<cycleMethod, busy, status, deadline, returned, pings, now>>
    /\ UNCHANGED <<mwVars, akVars, cfgVars, genVars>>

\* Grain 1 handles the client's request and calls grain 2.
HandleGo(g) ==
    /\ Starts(g, "go")
    /\ IssueCall(g, 1)
    /\ UNCHANGED <<cycleMethod, returned, pings, now>>
    /\ UNCHANGED <<mwVars, akVars, cfgVars, genVars>>

\* Grain g handles the request of call c: the handler calls the next grain
\* of the cycle; the handler of the call back to grain 1 responds at once.
HandleRequest(g) ==
    /\ Starts(g, "request")
    /\ LET c == Head(mailbox[g]).call
       IN  IF c = NumGrains
           THEN /\ status' = StatusAfterRespond(status, c, "ok")
                /\ mailbox' = MailboxAfterRespond(
                                 [mailbox EXCEPT ![g] = Tail(@)], c)
                /\ UNCHANGED <<busy, deadline>>
           ELSE IssueCall(g, c + 1)
    /\ UNCHANGED <<cycleMethod, returned, pings, now>>
    /\ UNCHANGED <<mwVars, akVars, cfgVars, genVars>>

\* The result of call c comes back to the handler of grain g that issued
\* it; the handler then responds to the call it serves, if any, with its
\* own result or with the error it got.
Finish(g, c, mb) ==
    LET served == c - 1
        result == IF status[c] = "ok" THEN "ok" ELSE "error"
    IN  /\ returned' = [returned EXCEPT ![c] = TRUE]
        /\ status' = StatusAfterRespond(status, served, result)
        /\ mailbox' = MailboxAfterRespond(mb, served)

\* Grain g handles the continuation of its reenterable call.
HandleContinuation(g) ==
    /\ Starts(g, "continuation")
    /\ Finish(g, Head(mailbox[g]).call, [mailbox EXCEPT ![g] = Tail(@)])
    /\ UNCHANGED <<cycleMethod, busy, deadline, pings, now>>
    /\ UNCHANGED <<mwVars, akVars, cfgVars, genVars>>

\* The blocking call of grain g has a result: its turn goes on.
Resume(g) ==
    /\ busy[g] # NoCall
    /\ status[busy[g]] \in {"ok", "error", "timeout"}
    /\ Finish(g, busy[g], mailbox)
    /\ busy' = [busy EXCEPT ![g] = NoCall]
    /\ UNCHANGED <<cycleMethod, deadline, handled, pings, now>>
    /\ UNCHANGED <<mwVars, akVars, cfgVars, genVars>>

\* The request of call c times out; a reenterable call gets the error as
\* its continuation.
Timeout(c) ==
    /\ status[c] = "pending"
    /\ now >= deadline[c]
    /\ status' = [status EXCEPT ![c] = "timeout"]
    /\ mailbox' = IF Reenterable(cycleMethod)
                  THEN [mailbox EXCEPT ![Caller(c)] =
                           Append(@, Msg("continuation", c))]
                  ELSE mailbox
    /\ UNCHANGED <<cycleMethod, busy, deadline, returned, handled, pings, now>>
    /\ UNCHANGED <<mwVars, akVars, cfgVars, genVars>>

\* Whether some grain can take a step of its own.
CanRun ==
    \E g \in Grains :
        \/ busy[g] = NoCall /\ mailbox[g] # <<>>
        \/ busy[g] # NoCall /\ status[busy[g]] \in {"ok", "error", "timeout"}

\* Time passes: handlers take no time against the request timeout, so the
\* clock moves only when no grain can run, and only while a request waits
\* for its timeout.
Tick ==
    /\ ~CanRun
    /\ \E c \in Calls : status[c] = "pending" /\ now < deadline[c]
    /\ now' = now + 1
    /\ UNCHANGED <<cycleMethod, mailbox, busy, status, deadline, returned,
                   handled, pings>>
    /\ UNCHANGED <<mwVars, akVars, cfgVars, genVars>>

GrainStep(g) ==
    \/ HandlePing(g)
    \/ HandleGo(g)
    \/ HandleRequest(g)
    \/ HandleContinuation(g)
    \/ Resume(g)

NextCalls ==
    \/ \E m \in MethodNames : StartCycle(m)
    \/ \E g \in Grains : SendPing(g)
    \/ \E g \in Grains : HandlePing(g)
    \/ \E g \in Grains : HandleGo(g)
    \/ \E g \in Grains : HandleRequest(g)
    \/ \E g \in Grains : HandleContinuation(g)
    \/ \E g \in Grains : Resume(g)
    \/ \E c \in Calls : Timeout(c)
    \/ Tick

\* ---------------------------------------------------------- specifications
Init ==
    InitMiddleware /\ InitActivatedKinds /\ InitCalls /\ InitConfig /\ InitGen

\* The activations under the middleware.
Spec == Init /\ [][Next]_vars

\* The live-instance counters under their callers: activations of a kind
\* that start and stop concurrently.
NextCount ==
    \/ \E k \in KindNames : Inc(k)
    \/ \E k \in KindNames : Dev(k)

SpecCount == Init /\ [][NextCount]_vars

\* The grains of a call cycle and their clients; every grain that can run
\* is scheduled, requests time out, and time passes.
SpecCalls ==
    /\ Init /\ [][NextCalls]_vars
    /\ \A g \in Grains : WF_vars(GrainStep(g))
    /\ \A c \in Calls : WF_vars(Timeout(c))
    /\ WF_vars(Tick)

\* One call of Configure with its options.
SpecConfig == Init /\ [][NextConfig]_vars

\* One run of the generator on one service.
SpecGen == Init /\ [][NextGen]_vars

\* ------------------------------------------------------------ observations
\* Whether a log entry is a message handed to the wrapped pipeline.
IsNext(e) == e.op = "next"

\* Whether a log entry hands a message of the given type to the pipeline.
IsNextOf(e, type) == IsNext(e) /\ e.arg.Message.type = type

\* Whether a log entry is an effect of stop handling.
IsStopEffect(e) == e.op \in {"publish", "remove"} \/ IsNextOf(e, "Stopped")

\* The number of entries of a sequence that satisfy a test.
Count(seq, Test(_)) == Cardinality({i \in 1 .. Len(seq) : Test(seq[i])})

IsStartedEnv(env) == env.Message = Started
IsStoppedEnv(env) == env.Message = Stopped
IsInitEntry(e) == IsNextOf(e, "ClusterInit")
IsStoppedEntry(e) == IsNextOf(e, "Stopped")

\* Activation a takes a step of its middleware.
Steps(a) == log'[a] # log[a]

\* C1: in the log of every activation each ClusterInit directly follows a
\* forwarded Started, each forwarded Started is directly followed by a
\* ClusterInit unless the turn still has that one step left, and the number
\* of ClusterInit deliveries equals the number of Started signals handled.
C1_StartedThenClusterInit ==
    \A a \in Acts :
        /\ \A i \in 1 .. Len(log[a]) :
              /\ IsInitEntry(log[a][i]) =>
                    i > 1 /\ IsNextOf(log[a][i - 1], "Started")
              /\ IsNextOf(log[a][i], "Started") =>
                    IF i < Len(log[a]) THEN IsInitEntry(log[a][i + 1])
                    ELSE pc[a] = <<"init">>
        /\ Count(log[a], IsInitEntry) =
              Count(delivered[a], IsStartedEnv) - (IF pc[a] = <<"init">> THEN 1 ELSE 0)

\* C1 witness: one activation has seen Started and then ClusterInit while
\* another activation is in the middle of a turn.
C1_Witness ==
    \E a, b \in Acts :
        /\ a # b /\ pc[a] = <<>> /\ pc[b] # <<>>
        /\ Len(log[a]) >= 2
        /\ IsNextOf(log[a][1], "Started") /\ IsInitEntry(log[a][2])

\* The effects of stop handling in the log of activation a, in order.
StopEffects(a) == SelectSeq(log[a], IsStopEffect)

\* C2: for an activation with a bound identity the effects of stop handling
\* are publish, remove, forward in this order, each once; the cache probe
\* taken at the forward finds no entry for the activation, and an entry the
\* removal finds was there at the publication.
C2_PublishRemoveForward ==
    \A a \in Acts :
        (ctxIdentity[a] # NoIdentity /\ StopDelivered(a)) =>
            LET eff == StopEffects(a)
            IN  /\ Len(eff) = 3 - Len(pc[a])
                /\ Len(eff) >= 1 => eff[1].op = "publish"
                /\ Len(eff) >= 2 => eff[2].op = "remove"
                /\ Len(eff) >= 2 => (eff[2].cached => eff[1].cached)
                /\ Len(eff) >= 3 => (IsStoppedEntry(eff[3]) /\ ~eff[3].cached)

\* C2 witness: an activation whose cache entry was present at publication
\* has finished stop handling.
C2_Witness ==
    \E a \in Acts :
        /\ ctxIdentity[a] # NoIdentity /\ StopDelivered(a) /\ pc[a] = <<>>
        /\ Len(StopEffects(a)) = 3
        /\ StopEffects(a)[1].cached /\ StopEffects(a)[2].cached

\* C3: a step in which an activation with no bound identity receives Stopped
\* is the whole handling: it forwards Stopped once, ends the turn, publishes
\* nothing and leaves the cache unchanged.
C3_StopWithoutIdentity ==
    [][\A a \in Acts :
          (/\ delivered'[a] # delivered[a]
           /\ IsStoppedEnv(delivered'[a][Len(delivered'[a])])
           /\ ctxIdentity[a] = NoIdentity)
          => /\ log'[a] = Append(log[a], [op |-> "next",
                                         arg |-> WrapEnvelope(Stopped),
                                         cached |-> FALSE])
             /\ pc'[a] = <<>>
             /\ EventStream' = EventStream
             /\ PidCache' = PidCache]_vars

\* C3 witness: an activation with no identity has handled Stopped while the
\* cache holds an entry and no event was published.
C3_Witness ==
    \E a \in Acts :
        /\ a \in actors /\ ctxIdentity[a] = NoIdentity
        /\ StopDelivered(a) /\ pc[a] = <<>>
        /\ Count(log[a], IsStoppedEntry) = 1
        /\ \E s \in Systems, k \in ClusterIdentities : PidCache[s][k] # NoPid

\* C4: a step of stop handling of activation a leaves every cache entry that
\* maps to another pid as it is.
C4_NewerEntryKept ==
    [][\A a \in Acts :
          (Steps(a) /\ StopDelivered(a)')
          => \A s \in Systems, k \in ClusterIdentities :
                PidCache[s][k] # a => PidCache'[s][k] = PidCache[s][k]]_vars

\* C4 witness: an older activation has removed by value and found its key
\* mapped to a newer activation, which is still cached.
C4_Witness ==
    \E a, b \in Acts :
        /\ a < b /\ ctxIdentity[a] = ctxIdentity[b] /\ actorSystem[a] = actorSystem[b]
        /\ ctxIdentity[a] # NoIdentity
        /\ \E i \in 1 .. Len(log[a]) : log[a][i].op = "remove" /\ ~log[a][i].cached
        /\ PidCache[actorSystem[a]][ctxIdentity[a]] = b

\* C10: a step in which an activation receives a message that is neither
\* Started nor Stopped forwards that envelope once, as received, ends the
\* turn, publishes nothing and leaves the cache unchanged.
C10_PassThrough ==
    [][\A a \in Acts :
          (/\ delivered'[a] # delivered[a]
           /\ ~IsStartedEnv(delivered'[a][Len(delivered'[a])])
           /\ ~IsStoppedEnv(delivered'[a][Len(delivered'[a])]))
          => /\ log'[a] = Append(log[a], [op |-> "next",
                                         arg |-> delivered'[a][Len(delivered'[a])],
                                         cached |-> FALSE])
             /\ pc'[a] = <<>>
             /\ EventStream' = EventStream
             /\ PidCache' = PidCache]_vars

\* C10 witness: a business message from a client was forwarded with its
\* sender, and neither ClusterInit nor an event came with it.
C10_Witness ==
    \E a \in Acts :
        /\ pc[a] = <<>> /\ Len(log[a]) = 3
        /\ IsNextOf(log[a][3], "User") /\ log[a][3].arg.Sender = ClientPid
        /\ \A s \in Systems : EventStream[s] = <<>>

\* ------------------------------------------------- ActivatedKind: claims
IsInc(c) == c = "Inc"
IsDev(c) == c = "Dev"

\* Whether every Dev call of a sequence follows an Inc call of its own: no
\* prefix holds more Dev than Inc calls.
Matched(seq) ==
    \A n \in 0 .. Len(seq) :
        Count(SubSeq(seq, 1, n), IsDev) <= Count(SubSeq(seq, 1, n), IsInc)

\* C5: the counter of every ActivatedKind equals the number of completed
\* Inc calls minus the number of completed Dev calls, in every order of the
\* calls.
C5_CountIsIncMinusDev ==
    \A k \in KindNames : count[k] = Count(calls[k], IsInc) - Count(calls[k], IsDev)

\* C5 witness: Inc and Dev calls on one kind have interleaved, Dev between
\* two Inc calls, while the other kind was counted too.
C5_Witness ==
    \E k, other \in KindNames :
        /\ k # other /\ calls[other] # <<>>
        /\ Len(calls[k]) >= 3
        /\ calls[k][1] = "Inc" /\ calls[k][2] = "Dev" /\ calls[k][3] = "Inc"
        /\ count[k] = 1

\* C6 as claimed: the counter is never negative, whatever the calls.
C6_NeverNegative == \A k \in KindNames : count[k] >= 0

\* C6 amended: the counter is not negative as long as every Dev call follows
\* an Inc call of its own.
C6_NotNegativeWhenMatched ==
    \A k \in KindNames : Matched(calls[k]) => count[k] >= 0

\* C6 witness: every instance counted was counted out again, and the counter
\* is back at zero.
C6_Witness ==
    \E k \in KindNames :
        /\ Matched(calls[k]) /\ Len(calls[k]) = 4
        /\ Count(calls[k], IsDev) = 2 /\ count[k] = 0

\* --------------------------------------------------- grain calls: claims
\* Whether grain g started the handler of a message of some kind before it
\* started the handler of a message of another kind.
HandledBefore(g, first, second) ==
    \E i, j \in 1 .. Len(handled[g]) :
        i < j /\ handled[g][i].kind = first /\ handled[g][j].kind = second

\* C7: in a cycle of the reenterable method every call eventually gets a
\* response and returns it to its caller, and no call of the cycle ever
\* fails.
C7_ReentrantCycleResolves ==
    /\ (cycleMethod = "InvokeService")
          ~> (\A c \in Calls : status[c] = "ok" /\ returned[c])
    /\ [](cycleMethod = "InvokeService" =>
             \A c \in Calls : status[c] \notin {"error", "timeout"})

\* C7 witness: both calls of the cycle have returned a response, and grain 1
\* handled the call back while its own call was outstanding.
C7_Witness ==
    /\ cycleMethod = "InvokeService"
    /\ \A c \in Calls : status[c] = "ok" /\ returned[c]
    /\ HandledBefore(1, "request", "continuation")

C9_NoHandlerDuringBlockingCall ==
    [][\A c \in Calls :
          (/\ cycleMethod \in MethodNames
           /\ ~DeclaredReenterable(cycleMethod)
           /\ status[c] # "unissued"
           /\ ~returned[c])
          => handled'[Caller(c)] = handled[Caller(c)]]_vars

\* C9 witness: a business message waits in the queue of a grain whose
\* blocking call is outstanding, and the clock has moved meanwhile.
C9_Witness ==
    \E c \in Calls :
        /\ cycleMethod = "DoWork"
        /\ status[c] = "pending" /\ busy[Caller(c)] = c
        /\ now > 0
        /\ \E i \in 1 .. Len(mailbox[Caller(c)]) : mailbox[Caller(c)][i].kind = "ping"

\* ------------------------------------------------------------------- C11
\* The events on the streams of all actor systems that name activation a.
EventsOf(a) ==
    UNION {{[stream |-> s, event |-> EventStream[s][i]] :
               i \in {j \in 1 .. Len(EventStream[s]) : EventStream[s][j].Pid = a}} :
           s \in Systems}

\* C11: every ClusterInit an activation has received carries the Identity
\* bound to the activation at construction and the cluster of the actor
\* system that hosts it, and every ActivationTerminating event that names the
\* activation carries that same Identity on the stream of that system.
C11_InitCarriesBoundIdentity ==
    \A a \in Acts :
        /\ \A i \in 1 .. Len(log[a]) :
               IsInitEntry(log[a][i]) =>
                   /\ log[a][i].arg.Message.Identity = ctxIdentity[a]
                   /\ log[a][i].arg.Message.Cluster = [ActorSystem |-> actorSystem[a]]
        /\ \A e \in EventsOf(a) :
               /\ e.event.ClusterIdentity = ctxIdentity[a]
               /\ e.stream = actorSystem[a]
               /\ \A i \in 1 .. Len(log[a]) :
                      IsInitEntry(log[a][i]) =>
                          log[a][i].arg.Message.Identity = e.event.ClusterIdentity

\* C11 witness: an activation hosted by the second actor system, with a bound
\* identity, has received ClusterInit and later published its termination.
C11_Witness ==
    \E a \in Acts :
        /\ actorSystem[a] = "sys2" /\ ctxIdentity[a] # NoIdentity
        /\ \E i \in 1 .. Len(log[a]) : IsInitEntry(log[a][i])
        /\ EventsOf(a) # {}

\* ------------------------------------------------------------------- C16
\* The positions, on the streams of all actor systems, of the events that
\* name activation a.
EventIndices(a) ==
    {si \in Systems \X (1 .. MaxDeliveries + 1) :
        /\ si[2] <= Len(EventStream[si[1]])
        /\ EventStream[si[1]][si[2]].Pid = a}

C16_ConcurrentStops ==
    \E a, b \in Acts :
        /\ a # b /\ ctxIdentity[a] # NoIdentity /\ ctxIdentity[b] # NoIdentity
        /\ StopDelivered(a) /\ pc[a] # <<>>
        /\ StopDelivered(b) /\ pc[b] # <<>>

C19_MiddlewareKeepsCount ==
    [][(\E a \in Acts : Steps(a)) => (count' = count /\ calls' = calls)]_vars

\* C19 witness: an activation with a bound identity has been through Started,
\* ClusterInit, a business message and the whole of stop handling, and the
\* count of its kind is where it was at construction.
C19_Witness ==
    \E a \in Acts :
        /\ ctxIdentity[a] # NoIdentity
        /\ StopDelivered(a) /\ pc[a] = <<>> /\ Len(delivered[a]) = 3
        /\ Count(log[a], IsInitEntry) = 1
        /\ count[ctxIdentity[a].Kind] = 0 /\ calls[ctxIdentity[a].Kind] = <<>>

\* ------------------------------------------------------------------- C20
\* C20: an activation with no bound identity is started like any other: each
\* Started it forwards is directly followed by one ClusterInit, whose
\* Identity is absent and whose cluster is that of the hosting system, with
\* one ClusterInit per Started once the turn is over; its stop handling has
\* no publish and no removal and no event names it. For every activation,
\* until Stopped is handed to it, its effects are forwards and ClusterInit
\* deliveries only: no event is published and no cache removal is made.
C20_StartWithoutIdentity ==
    \A a \in Acts :
        /\ ctxIdentity[a] = NoIdentity =>
              /\ \A i \in 1 .. Len(log[a]) :
                    /\ log[a][i].op \in {"next", "init"}
                    /\ IsInitEntry(log[a][i]) =>
                          /\ i > 1 /\ IsNextOf(log[a][i - 1], "Started")
                          /\ log[a][i].arg.Message.Identity = NoIdentity
                          /\ log[a][i].arg.Message.Cluster =
                                 [ActorSystem |-> actorSystem[a]]
                    /\ IsNextOf(log[a][i], "Started") =>
                          IF i < Len(log[a]) THEN IsInitEntry(log[a][i + 1])
                          ELSE pc[a] = <<"init">>
              /\ pc[a] = <<>> =>
                    Count(log[a], IsInitEntry) = Count(delivered[a], IsStartedEnv)
              /\ EventIndices(a) = {}
        /\ ~StopDelivered(a) =>
              /\ \A i \in 1 .. Len(log[a]) : log[a][i].op \in {"next", "init"}
              /\ EventIndices(a) = {}

\* C20 witness: an activation with no bound identity has received Started and
\* its ClusterInit, and then handled Stopped, while the cache holds an entry.
C20_Witness ==
    \E a \in Acts :
        /\ a \in actors /\ ctxIdentity[a] = NoIdentity
        /\ Count(log[a], IsInitEntry) = 1
        /\ StopDelivered(a) /\ pc[a] = <<>>
        /\ \E s \in Systems, k \in ClusterIdentities : PidCache[s][k] # NoPid

\* ------------------------------------------------------------------- C12
\* The kinds the applied options have registered, in order.
RECURSIVE Registrations(_)
Registrations(opts) ==
    IF opts = <<>> THEN <<>>
    ELSE (IF Head(opts).op = "WithKinds" THEN Head(opts).arg ELSE <<>>)
         \o Registrations(Tail(opts))

\* The Kind registered last under a name, if any.
LastRegistered(name, regs) ==
    LET at == {i \in 1 .. Len(regs) : regs[i].Kind = name}
    IN  IF at = {} THEN NoKind
        ELSE regs[CHOOSE i \in at : \A j \in at : j <= i]

\* The names of the kinds of a list.
NamesOf(kinds) == {kinds[i].Kind : i \in 1 .. Len(kinds)}

\* C12: after any sequence of registrations the Kinds map holds, under each
\* name, the Kind registered last under that name, and nothing under a name
\* never registered; every registration is applied, whether the name is in
\* use or not; a registration leaves the entries under the other names as
\* they are; and a registration of the Kind a name already maps to leaves
\* the map as it is.
C12_LastWinsByName ==
    /\ [](cfgpc # "idle" =>
            \A name \in KindNames :
                config.Kinds[name] = LastRegistered(name, Registrations(options)))
    /\ [][(cfgpc = "options" /\ options' # options
           /\ options'[Len(options')].op = "WithKinds") =>
             LET kinds == options'[Len(options')].arg
             IN  /\ \A name \in KindNames \ NamesOf(kinds) :
                        config'.Kinds[name] = config.Kinds[name]
                 /\ (\A i \in 1 .. Len(kinds) :
                        config.Kinds[kinds[i].Kind] = kinds[i])
                    => config' = config]_vars

\* C12 witness: Configure has returned after a Kind was registered under
\* Hello, then one under World, then another Kind under Hello again: the
\* map holds the second Hello and the World.
C12_Witness ==
    /\ cfgpc = "returned"
    /\ \E i, j, k \in 1 .. Len(Registrations(options)) :
          LET regs == Registrations(options)
          IN  /\ i < j /\ j < k
              /\ regs[i].Kind = "Hello" /\ regs[j].Kind = "World"
              /\ regs[k].Kind = "Hello" /\ regs[k] # regs[i]
              /\ config.Kinds["Hello"] = regs[k]
              /\ config.Kinds["World"] = regs[j]

\* ------------------------------------------------------------------- C15
\* C15: the Config that Configure returns when it is given no option has a
\* cluster-wide timeout of 5 seconds, a gossip interval of 300 ms, a gossip
\* request timeout of 500 ms, a gossip fan-out of 3, a gossip max-send of 50
\* and no Kind under any name.
C15_DefaultsWithoutOptions ==
    (cfgpc = "returned" /\ options = <<>>) =>
        /\ config.TimeoutTime = 5000
        /\ config.GossipInterval = 300
        /\ config.GossipRequestTimeout = 500
        /\ config.GossipFanOut = 3
        /\ config.GossipMaxSend = 50
        /\ \A name \in KindNames : config.Kinds[name] = NoKind

\* C15 witness: Configure has returned without having applied an option.
C15_Witness == cfgpc = "returned" /\ options = <<>> /\ config.Name = "mycluster"

\* ------------------------------------------------------------------- C13
\* Whether a declared method is neither client- nor server-streaming.
IsUnary(method) == ~method.StreamingClient /\ ~method.StreamingServer

\* The names of the methods or descriptors of a list, in order.
GoNames(seq) == [i \in 1 .. Len(seq) |-> seq[i].GoName]

DescNames(seq) == [i \in 1 .. Len(seq) |-> seq[i].Name]

\* C13: the descriptors generateService has built are those of the
\* non-streaming methods of the service, one for each, in the order of
\* declaration; no streaming method has a descriptor.
C13_ExactlyTheUnaryMethods ==
    genpc = "done" =>
        DescNames(serviceDesc.Methods) =
            GoNames(SelectSeq(protoService.Methods, IsUnary))

\* C13 witness: the generator has run on a service that declares a
\* server-streaming method before a unary one and has built one descriptor.
C13_Witness ==
    /\ genpc = "done" /\ Len(protoService.Methods) = 2
    /\ protoService.Methods[1].StreamingServer
    /\ ~protoService.Methods[1].StreamingClient
    /\ IsUnary(protoService.Methods[2])
    /\ Len(serviceDesc.Methods) = 1

\* ------------------------------------------------------------------- C14
\* C14: the Index of every descriptor is the position, counted from 0 over
\* all declared methods with the streaming ones, of the method it was built
\* for, and the indices of the descriptors of a service are distinct.
C14_IndexIsDeclaredPosition ==
    genpc = "done" =>
        /\ \A j \in 1 .. Len(serviceDesc.Methods) :
              LET md == serviceDesc.Methods[j]
              IN  /\ md.Index \in 0 .. Len(protoService.Methods) - 1
                  /\ protoService.Methods[md.Index + 1].GoName = md.Name
        /\ \A j, k \in 1 .. Len(serviceDesc.Methods) :
              j # k => serviceDesc.Methods[j].Index # serviceDesc.Methods[k].Index

\* C14 witness: the first descriptor of a service whose first method is
\* streaming has Index 1.
C14_Witness ==
    /\ genpc = "done" /\ Len(protoService.Methods) = 2
    /\ ~IsUnary(protoService.Methods[1])
    /\ Len(serviceDesc.Methods) = 1
    /\ serviceDesc.Methods[1].Index = 1
    /\ serviceDesc.Methods[1].Name = protoService.Methods[2].GoName

\* ------------------------------------------------------------------- C18
\* C18: every non-streaming method declared without the option has a
\* descriptor whose Reenterable is false, and a descriptor's Reenterable is
\* true exactly when the declaration of its method sets reenterable = true.
C18_BlockingUnlessAnnotated ==
    genpc = "done" =>
        /\ \A i \in 1 .. Len(protoService.Methods) :
              LET method == protoService.Methods[i]
              IN  (IsUnary(method) /\ ~method.Options.set) =>
                      \E j \in 1 .. Len(serviceDesc.Methods) :
                          /\ serviceDesc.Methods[j].Name = method.GoName
                          /\ ~serviceDesc.Methods[j].Reenterable
        /\ \A j \in 1 .. Len(serviceDesc.Methods) :
              LET md == serviceDesc.Methods[j]
              IN  md.Reenterable <=>
                      \E i \in 1 .. Len(protoService.Methods) :
                          /\ protoService.Methods[i].GoName = md.Name
                          /\ protoService.Methods[i].Options.set
                          /\ protoService.Methods[i].Options.Reenterable

\* C18 witness: the generator has run on service Hello of the example, whose
\* InvokeService sets the option and whose DoWork declares none.
C18_Witness ==
    /\ genpc = "done" /\ protoService = HelloService
    /\ serviceDesc.Methods[1].Reenterable
    /\ ~serviceDesc.Methods[2].Reenterable

=============================================================================
